---- MODULE Spec2Model ----
(***************************************************************************)
(* TextObserver (src/TextObserver.js, class at lines 85-403): a set of     *)
(* observers that rewrite the text of a live DOM tree through a            *)
(* caller-supplied callback, coordinated through the static registry       *)
(* TextObserver.#observers and the host's MutationObserver primitive.      *)
(*                                                                         *)
(* The host (DOM tree, MutationObserver) is modelled by what the DOM       *)
(* standard says it does: a write to a node appends a record to the queue  *)
(* of every MutationObserver registered on an inclusive ancestor of the    *)
(* node inside the same node tree (a shadow tree is a separate tree);      *)
(* takeRecords() empties the queue and returns it; disconnect() drops the  *)
(* registrations and empties the queue; a non-empty queue is delivered     *)
(* later, to the observers in their creation order.                        *)
(* Sibling order is not modelled: a traversal visits the nodes of a        *)
(* subtree in the fixed order NodeOrder.                                   *)
(***************************************************************************)
EXTENDS Integers, Sequences, FiniteSets, TLC

(***************************************************************************)
(* Bounds of the model                                                     *)
(***************************************************************************)
\* number of TextObserver objects that may be constructed
MaxWatchers == 2
\* number of external tree edits (the page's own writes) and of
\* disconnect/reconnect calls, taken together, in one behaviour
MaxOps == 3
Watchers == 1..MaxWatchers

NULL == "null"

(***************************************************************************)
(* The document: a fixed universe of nodes; the tree shape (parent), the   *)
(* text values, the attribute values and the attached shadow roots are     *)
(* state.                                                                  *)
(***************************************************************************)
Elements == {"body", "div", "inp", "host", "nos"}
TextNodes == {"t1", "ts"}
ShadowRoots == {"sr"}
Nodes == Elements \cup TextNodes \cup ShadowRoots

\* fixed visiting order of traversals
NodeOrder == <<"body", "nos", "div", "t1", "inp", "host", "sr", "ts">>

\* Element.tagName
TagName(n) ==
  CASE n = "body" -> "BODY"
    [] n = "div"  -> "DIV"
    [] n = "inp"  -> "INPUT"
    [] n = "host" -> "DIV"
    [] n = "nos"  -> "NOSCRIPT"
    [] OTHER      -> "undefined"

\* the shadow root that attachShadow() on an element returns
ShadowOf(e) == IF e = "host" THEN "sr" ELSE NULL

AttrNames == {"placeholder", "title"}

\* the values the document starts with, the value the page writes, the value a
\* failing callback throws on, and the letter each observer's callback appends
InitValue == <<"i">>
ExtValue == <<"x">>
Poison == <<"z">>
Letter(w) == IF w = 1 THEN "a" ELSE "b"

VARIABLES
  \* the document
  parent,      \* Node.parentNode of every node (NULL: detached, or a shadow root)
  text,        \* Node.nodeValue of every text node
  attr,        \* attribute values, a function on the present <<element, name>> pairs
  shadow,      \* the elements with an attached shadow root (Element.shadowRoot)
  title,       \* document.title
  hasBody,     \* document.body !== null
  \* one TextObserver object per watcher id
  created,     \* "none", "inert" (constructor returned early), "live", or
               \* "failed" (the constructor threw: the object never existed)
  callback,    \* #callback: the kind of transform the caller supplied
  options,     \* #performanceOptions
  targets,     \* #targets, a Set in insertion order
  processed,   \* #processed
  connected,   \* #connected
  observing,   \* the nodes #observer is registered on (empty: disconnected)
  queue,       \* the record queue of #observer
  \* TextObserver.#observers, a Set in insertion order
  registry,
  \* the operation in progress and its position
  pc,          \* "idle", "dispatch", "action" or "resume"
  op,          \* the public operation or feed callback that is running
  records,     \* the local array `records` of the running cycle
  idx,         \* the position of the dispatch loop in the registry
  \* history
  log,         \* the callback invocations of the operation in progress
  cycles,      \* the feed deliveries in a row, with no other operation between them
  edits,       \* page edits made so far
  calls        \* disconnect/reconnect calls made so far

docVars == <<parent, text, attr, shadow, title, hasBody>>
objVars == <<created, callback, options, targets, processed, connected, observing, queue>>
ctlVars == <<pc, op, records, idx>>
histVars == <<log, cycles, edits, calls>>
vars == <<docVars, objVars, registry, ctlVars, histVars>>

(***************************************************************************)
(* Host primitives                                                         *)
(***************************************************************************)
RECURSIVE InclusiveAncestors(_, _)
InclusiveAncestors(par, n) ==
  IF par[n] = NULL THEN {n} ELSE {n} \cup InclusiveAncestors(par, par[n])

\* Node.contains(other): other is an inclusive descendant of node
Contains(par, node, other) == node \in InclusiveAncestors(par, other)

\* the proper descendants of root in traversal order
DescendantsOf(par, root) ==
  SelectSeq(NodeOrder, LAMBDA n : n # root /\ Contains(par, root, n))

\* a MutationRecord; `by` and `old` are history: the watcher whose write
\* produced the record, or {} for a write of the page, and the value the
\* text node or attribute had before the write (#CONFIG asks the host for
\* neither characterDataOldValue nor attributeOldValue, so the code's own
\* record.oldValue is null)
Record(type, target, added, name, by, old) ==
  [type |-> type, target |-> target, added |-> added, name |-> name, by |-> by,
   old |-> old]

\* queue a mutation record with every observer registered on an inclusive
\* ancestor of the mutated node
Notify(q, obs, par, rec) ==
  [o \in Watchers |->
     IF obs[o] \cap InclusiveAncestors(par, rec.target) # {}
     THEN Append(q[o], rec) ELSE q[o]]

RECURSIVE SeqToSet(_)
SeqToSet(s) == IF s = <<>> THEN {} ELSE {Head(s)} \cup SeqToSet(Tail(s))

\* Set.add on an insertion-ordered Set
SetAdd(s, x) == IF x \in SeqToSet(s) THEN s ELSE Append(s, x)

\* Set.delete on an insertion-ordered Set
SetDelete(s, x) == SelectSeq(s, LAMBDA y : y # x)

(***************************************************************************)
(* The caller-supplied callback: "append" appends the observer's letter,   *)
(* "failing" does the same but throws on the value Poison, "blank" returns *)
(* the empty string and "identity" returns its argument.                   *)
(***************************************************************************)
CallbackKinds == {"append", "failing", "blank", "identity"}

\* callbacks among which none returns its argument
ApplyKindNoIdentity(kind, w, v) ==
  CASE kind = "blank" -> <<>>
    [] OTHER          -> Append(v, Letter(w))

\* callback(v) for a callback of the given kind
ApplyKind(kind, w, v) ==
  CASE kind = "blank"    -> <<>>
    [] kind = "identity" -> v
    [] OTHER             -> Append(v, Letter(w))

Apply(w, v) == ApplyKind(callback[w], w, v)

ThrowsKind(kind, v) == kind = "failing" /\ v = Poison

Throws(w, v) == ThrowsKind(callback[w], v)

\* one callback invocation as it is remembered in log
Invocation(w, n, name, v) == [w |-> w, n |-> n, name |-> name, in |-> v]

(***************************************************************************)
(* Class constants                                                         *)
(***************************************************************************)
IGNORED_NODES == {"cdata", "pi", "comment"}
IGNORED_TAGS == {"SCRIPT", "STYLE", "NOSCRIPT"}

NodeType(n) ==
  IF n \in TextNodes THEN "text"
  ELSE IF n \in Elements THEN "element" ELSE "fragment"

\* #WATCHED_ATTRIBUTES: the tag names an attribute's selectors match ("*": all)
\* (the selectors input[type="image"], [role="img"] and input[type="button"]
\* match no element of the universe)
WATCHED_ATTRIBUTES(name) ==
  CASE name = "placeholder" -> {"INPUT", "TEXTAREA"}
    [] name = "alt"         -> {"IMG", "AREA"}
    [] name = "value"       -> {}
    [] name = "title"       -> {"*"}
    [] OTHER                -> {}

\* Object.keys / Object.entries order of #WATCHED_ATTRIBUTES
AttrOrder == <<"placeholder", "alt", "value", "title">>

\* element.matches(one of the attribute's selectors)
Matches(e, name) ==
  "*" \in WATCHED_ATTRIBUTES(name) \/ TagName(e) \in WATCHED_ATTRIBUTES(name)

\* Element.isContentEditable
IsContentEditable(e) == FALSE

DefaultOptions == [contentEditable |-> TRUE, attributes |-> TRUE, shadows |-> TRUE]

(***************************************************************************)
(* The work of one observer on the document.  The operators below thread   *)
(* a record s of everything a run can change: the text and attribute       *)
(* values, #processed, #targets, the feeds' registrations and queues, the  *)
(* log, whether the callback has thrown (err: the rest of the run is       *)
(* skipped), and the local array attributeMutations (am).                  *)
(***************************************************************************)
Run0 ==
  [text |-> text, attr |-> attr, processed |-> processed, targets |-> targets,
   observing |-> observing, queue |-> queue, log |-> log, err |-> FALSE,
   am |-> <<>>]

\* a validity test that does not ask for a parent
ValidIgnoringParent(w, n) ==
  /\ NodeType(n) \notin IGNORED_NODES
  /\ TagName(parent[n]) \notin IGNORED_TAGS
  /\ (~options[w].contentEditable \/ ~IsContentEditable(parent[n]))

\* #valid(node); iconFonts (computed style) is off and not modelled
Valid(w, n) ==
  /\ parent[n] # NULL
  /\ NodeType(n) \notin IGNORED_NODES
  /\ TagName(parent[n]) \notin IGNORED_TAGS
  /\ (~options[w].contentEditable \/ ~IsContentEditable(parent[n]))

\* node.nodeValue = this.#callback(node.nodeValue); this.#processed.add(node)
TransformText(w, n, s) ==
  IF s.err THEN s
  ELSE IF Throws(w, s.text[n])
  THEN [s EXCEPT !.err = TRUE,
                 !.log = Append(@, Invocation(w, n, "", s.text[n]))]
  ELSE [s EXCEPT !.text[n] = Apply(w, @),
                 !.queue = Notify(@, s.observing, parent,
                                  Record("characterData", n, <<>>, "", {w}, s.text[n])),
                 !.log = Append(@, Invocation(w, n, "", s.text[n])),
                 !.processed[w] = @ \cup {n}]

\* element.setAttribute(attribute, this.#callback(value))
TransformAttr(w, e, name, s) ==
  IF s.err THEN s
  ELSE IF Throws(w, s.attr[<<e, name>>])
  THEN [s EXCEPT !.err = TRUE,
                 !.log = Append(@, Invocation(w, e, name, s.attr[<<e, name>>]))]
  ELSE [s EXCEPT !.attr[<<e, name>>] = Apply(w, @),
                 !.queue = Notify(@, s.observing, parent,
                                  Record("attributes", e, <<>>, name, {w}, s.attr[<<e, name>>])),
                 !.log = Append(@, Invocation(w, e, name, s.attr[<<e, name>>]))]

\* #processNodes, lines 328-334: the tree walker over the valid text nodes
RECURSIVE TextWalk(_, _, _)
TextWalk(w, nodes, s) ==
  IF nodes = <<>> \/ s.err THEN s
  ELSE LET n == Head(nodes)
       IN TextWalk(w, Tail(nodes),
                   IF n \in TextNodes /\ Valid(w, n) /\ n \notin s.processed[w]
                   THEN TransformText(w, n, s) ELSE s)

\* root.querySelectorAll(selectors) for every watched attribute, in order
RECURSIVE AttrPairs(_, _)
AttrPairs(names, root) ==
  IF names = <<>> THEN <<>>
  ELSE LET els == SelectSeq(DescendantsOf(parent, root),
                            LAMBDA e : e \in Elements /\ Matches(e, Head(names)))
       IN [i \in 1..Len(els) |-> <<Head(names), els[i]>>]
          \o AttrPairs(Tail(names), root)

\* #processNodes, lines 339-349: `seen` is #processed, which the loop leaves alone
RECURSIVE AttrWalk(_, _, _, _)
AttrWalk(w, pairs, seen, s) ==
  IF pairs = <<>> \/ s.err THEN s
  ELSE LET name == Head(pairs)[1]
           e == Head(pairs)[2]
       IN AttrWalk(w, Tail(pairs), seen,
                   IF e \notin seen /\ <<e, name>> \in DOMAIN s.attr
                   THEN TransformAttr(w, e, name, s) ELSE s)

\* an attribute scan that runs whatever the attributes option says
ProcessAttributesAlways(w, root, s) ==
  IF s.err THEN s
  ELSE LET pairs == AttrPairs(AttrOrder, root)
           seen == s.processed[w]
           s1 == AttrWalk(w, pairs, seen, s)
           tempProcessed == {pairs[i][2] : i \in 1..Len(pairs)} \ seen
       IN IF s1.err THEN s1
          ELSE [s1 EXCEPT !.processed[w] = @ \cup tempProcessed]

\* #processNodes, lines 336-350 and 377-379 (cssContent is off and not modelled)
ProcessAttributes(w, root, s) ==
  IF s.err \/ ~options[w].attributes THEN s
  ELSE LET pairs == AttrPairs(AttrOrder, root)
           seen == s.processed[w]
           s1 == AttrWalk(w, pairs, seen, s)
           tempProcessed == {pairs[i][2] : i \in 1..Len(pairs)} \ seen
       IN IF s1.err THEN s1
          ELSE [s1 EXCEPT !.processed[w] = @ \cup tempProcessed]

\* #processNodes, lines 382-389 and 399: what the shadow-root walker yields.
\* The first item is root.shadowRoot; every later one is what nextNode()
\* returns, the element that has a shadow root.
ShadowItems(root) ==
  (IF root \in Elements /\ root \in shadow THEN <<ShadowOf(root)>> ELSE <<>>)
  \o SelectSeq(DescendantsOf(parent, root),
               LAMBDA e : e \in Elements /\ e \in shadow)

RECURSIVE ProcessNodes(_, _, _)
RECURSIVE ShadowWalk(_, _, _)

\* #processNodes, lines 390-400
ShadowWalk(w, items, s) ==
  IF items = <<>> \/ s.err THEN s
  ELSE LET x == Head(items)
           s1 == [s EXCEPT !.targets[w] = SetAdd(@, x)]
           s2 == ProcessNodes(w, x, s1)
           s3 == IF created[w] = "live"
                 THEN [s2 EXCEPT !.observing[w] = @ \cup {x}] ELSE s2
       IN ShadowWalk(w, Tail(items),
                     IF x \in SeqToSet(s.targets[w]) THEN s
                     ELSE IF s2.err THEN s2 ELSE s3)

\* #processNodes(root)
ProcessNodes(w, root, s) ==
  LET s1 == TextWalk(w, DescendantsOf(parent, root), s)
      s2 == ProcessAttributes(w, root, s1)
  IN IF s2.err \/ ~options[w].shadows THEN s2
     ELSE ShadowWalk(w, ShadowItems(root), s2)

\* a handling of added nodes that looks at a first added text node only
AddedWalkTextOnly(w, nodes, s) ==
  IF nodes = <<>> \/ s.err THEN s
  ELSE LET n == Head(nodes)
       IN IF NodeType(n) = "text" /\ Valid(w, n) /\ n \notin s.processed[w]
          THEN TransformText(w, n, s) ELSE s

\* #observerCallback, lines 248-258: the added nodes of a childList record
RECURSIVE AddedWalk(_, _, _)
AddedWalk(w, nodes, s) ==
  IF nodes = <<>> \/ s.err THEN s
  ELSE LET n == Head(nodes)
       IN AddedWalk(w, Tail(nodes),
            IF NodeType(n) = "text"
            THEN IF Valid(w, n) /\ n \notin s.processed[w]
                 THEN TransformText(w, n, s) ELSE s
            ELSE IF NodeType(n) \notin IGNORED_NODES
                 THEN ProcessNodes(w, n, s) ELSE s)

\* #observerCallback, lines 244-272: the record loop
RECURSIVE RecordWalk(_, _, _)
RecordWalk(w, mutations, s) ==
  IF mutations = <<>> \/ s.err THEN s
  ELSE LET m == Head(mutations)
       IN RecordWalk(w, Tail(mutations),
            CASE m.type = "childList" -> AddedWalk(w, m.added, s)
              [] m.type = "characterData" ->
                   IF Valid(w, m.target) /\ m.target \notin s.processed[w]
                   THEN TransformText(w, m.target, s) ELSE s
              [] m.type = "attributes" ->
                   IF options[w].attributes /\ m.target \notin s.processed[w]
                   THEN [s EXCEPT !.am = Append(@, m)] ELSE s)

\* a handling of the saved attribute records that does not look at selectors
DeferredWalkAnyElement(w, ams, s) ==
  IF ams = <<>> \/ s.err THEN s
  ELSE LET e == Head(ams).target
           name == Head(ams).name
       IN IF <<e, name>> \in DOMAIN s.attr /\ s.attr[<<e, name>>] # <<>>
          THEN TransformAttr(w, e, name, s) ELSE s

\* a handling of the saved attribute records that stops after the first one
DeferredWalkFirstOnly(w, ams, s) ==
  IF ams = <<>> \/ s.err THEN s
  ELSE LET e == Head(ams).target
           name == Head(ams).name
       IN IF Matches(e, name) /\ <<e, name>> \in DOMAIN s.attr
             /\ s.attr[<<e, name>>] # <<>>
          THEN TransformAttr(w, e, name, s) ELSE s

\* #observerCallback, lines 273-289: the saved attribute records
RECURSIVE DeferredWalk(_, _, _)
DeferredWalk(w, ams, s) ==
  IF ams = <<>> \/ s.err THEN s
  ELSE LET e == Head(ams).target
           name == Head(ams).name
           matched == Matches(e, name)
           present == <<e, name>> \in DOMAIN s.attr
       IN DeferredWalk(w, Tail(ams),
            IF matched /\ present /\ s.attr[<<e, name>>] # <<>>
            THEN TransformAttr(w, e, name, s) ELSE s)

\* a batch run that keeps the marks of the runs before it
ObserverCallbackKeeping(w, mutations, s) ==
  LET s1 == RecordWalk(w, mutations, [s EXCEPT !.am = <<>>])
      s2 == DeferredWalk(w, s1.am, s1)
  IN [s2 EXCEPT !.am = <<>>]

\* #observerCallback(mutations)
ObserverCallback(w, mutations, s) ==
  LET s1 == RecordWalk(w, mutations, [s EXCEPT !.processed[w] = {}, !.am = <<>>])
      s2 == DeferredWalk(w, s1.am, s1)
  IN [s2 EXCEPT !.am = <<>>]

(***************************************************************************)
(* Initial state: the page before any TextObserver exists.                 *)
(*   body - div - { t1, inp[placeholder], host }, and, when the host has   *)
(*   its shadow root from the start, host => sr - ts.                      *)
(***************************************************************************)
NoOp == [kind |-> "none", w |-> 0, arg |-> FALSE]

InitDocument(withShadow, withBody) ==
  /\ shadow = IF withShadow THEN {"host"} ELSE {}
  /\ parent = [n \in Nodes |->
                 CASE n = "div" -> "body"
                   [] n \in {"t1", "inp", "host"} -> "div"
                   [] n = "ts" -> IF withShadow THEN "sr" ELSE NULL
                   [] OTHER -> NULL]
  /\ text = [n \in TextNodes |-> InitValue]
  /\ attr = [p \in {<<"inp", "placeholder">>} |-> InitValue]
  /\ title = InitValue
  /\ hasBody = withBody

InitObjects ==
  /\ created = [w \in Watchers |-> "none"]
  /\ callback = [w \in Watchers |-> "append"]
  /\ options = [w \in Watchers |-> DefaultOptions]
  /\ targets = [w \in Watchers |-> <<>>]
  /\ processed = [w \in Watchers |-> {}]
  /\ connected = [w \in Watchers |-> TRUE]
  /\ observing = [w \in Watchers |-> {}]
  /\ queue = [w \in Watchers |-> <<>>]
  /\ registry = <<>>
  /\ pc = "idle" /\ op = NoOp /\ records = <<>> /\ idx = 0
  /\ log = <<>> /\ cycles = 0 /\ edits = 0 /\ calls = 0

(***************************************************************************)
(* The page's own writes                                                   *)
(***************************************************************************)
\* the nodes the page moves around, and where it may put them
Movable == {"div", "t1", "ts"}
HomeOf(n) ==
  CASE n = "div" -> {"body", "nos"}
    [] n = "t1"  -> {"div", "body", "nos"}
    [] n = "ts"  -> {"sr"} \cap {ShadowOf(e) : e \in shadow}
    [] OTHER     -> {}

PageStep ==
  /\ pc = "idle"
  /\ edits + calls < MaxOps
  /\ edits' = edits + 1
  /\ cycles' = 0
  /\ UNCHANGED <<title, hasBody, shadow, created, callback, options, targets,
                 processed, connected, observing, registry, ctlVars, log, calls>>

\* textNode.nodeValue = v
ExtSetText(n, v) ==
  /\ PageStep
  /\ text' = [text EXCEPT ![n] = v]
  /\ queue' = Notify(queue, observing, parent,
                     Record("characterData", n, <<>>, "", {}, text[n]))
  /\ UNCHANGED <<parent, attr>>

\* element.setAttribute(name, v)
ExtSetAttr(e, name, v) ==
  /\ PageStep
  /\ <<e, name>> \in DOMAIN attr
  /\ attr' = [attr EXCEPT ![<<e, name>>] = v]
  /\ queue' = Notify(queue, observing, parent,
                     Record("attributes", e, <<>>, name, {}, attr[<<e, name>>]))
  /\ UNCHANGED <<parent, text>>

\* p.appendChild(n): n leaves its old parent, if any, and becomes a child of p
ExtAppend(n, p) ==
  /\ PageStep
  /\ n \in Movable /\ p \in HomeOf(n)
  /\ ~Contains(parent, n, p)
  /\ LET q1 == IF parent[n] = NULL THEN queue
               ELSE Notify(queue, observing, parent,
                           Record("childList", parent[n], <<>>, "", {}, NULL))
     IN queue' = Notify(q1, observing, parent,
                        Record("childList", p, <<n>>, "", {}, NULL))
  /\ parent' = [parent EXCEPT ![n] = p]
  /\ UNCHANGED <<text, attr>>

\* n.remove()
ExtRemove(n) ==
  /\ PageStep
  /\ n \in Movable /\ parent[n] # NULL
  /\ queue' = Notify(queue, observing, parent,
                     Record("childList", parent[n], <<>>, "", {}, NULL))
  /\ parent' = [parent EXCEPT ![n] = NULL]
  /\ UNCHANGED <<text, attr>>

\* element.setAttribute(name, v) on an element that has no such attribute
ExtAddAttr(e, name, v) ==
  /\ PageStep
  /\ <<e, name>> \notin DOMAIN attr
  /\ attr' = [u \in DOMAIN attr \cup {<<e, name>>} |->
                IF u = <<e, name>> THEN v ELSE attr[u]]
  /\ queue' = Notify(queue, observing, parent,
                     Record("attributes", e, <<>>, name, {}, NULL))
  /\ UNCHANGED <<parent, text>>

\* element.removeAttribute(name)
ExtRemoveAttr(e, name) ==
  /\ PageStep
  /\ <<e, name>> \in DOMAIN attr
  /\ attr' = [u \in DOMAIN attr \ {<<e, name>>} |-> attr[u]]
  /\ queue' = Notify(queue, observing, parent,
                     Record("attributes", e, <<>>, name, {}, attr[<<e, name>>]))
  /\ UNCHANGED <<parent, text>>

(***************************************************************************)
(* The attachShadow override, lines 128-152                                *)
(***************************************************************************)
\* lines 134-148 for the registry members from position i on; `found` collects
\* the members whose #observer is pushed to the local array `observers`
RECURSIVE AttachWalk(_, _, _, _)
AttachWalk(i, e, found, s) ==
  IF i > Len(registry) THEN [found |-> found, s |-> s]
  ELSE LET w == registry[i]
           hit == \E t \in SeqToSet(s.targets[w]) : Contains(parent, t, e)
           s1 == [s EXCEPT !.targets[w] = SetAdd(@, ShadowOf(e)),
                           !.processed[w] = {}]
       IN AttachWalk(i + 1, e,
                     IF hit THEN found \cup {w} ELSE found,
                     IF options[w].shadows /\ hit
                     THEN ProcessNodes(w, ShadowOf(e), s1) ELSE s)

AttachShadow(e) ==
  /\ pc = "idle"
  /\ e \in Elements /\ ShadowOf(e) # NULL /\ e \notin shadow
  /\ shadow' = shadow \cup {e}
  /\ LET r == AttachWalk(1, e, {}, Run0)
     IN /\ targets' = r.s.targets
        /\ processed' = r.s.processed
        /\ observing' = [o \in Watchers |->
                           IF o \in r.found
                           THEN r.s.observing[o] \cup {ShadowOf(e)}
                           ELSE r.s.observing[o]]
  /\ cycles' = 0
  /\ UNCHANGED <<parent, text, attr, title, hasBody, created, callback, options,
                 connected, queue, registry, ctlVars, log, edits, calls>>

(***************************************************************************)
(* The freeze of a cycle: lines 294-299 (#flushAndSleepDuring) and lines   *)
(* 184-190 (the MutationObserver callback of `trigger`, which was handed   *)
(* `mutations`).  A registry member without #observer (an inert one) makes *)
(* takeRecords() throw a TypeError: the members before it are frozen and   *)
(* the operation is aborted.                                               *)
(***************************************************************************)
\* a freeze that disconnects a feed before it asks for its records
FreezeDropping(q, obs, trigger, mutations) ==
  LET frozen == SeqToSet(registry)
  IN [ok |-> TRUE,
      records |-> [i \in 1..Len(registry) |->
                     IF registry[i] = trigger THEN mutations ELSE <<>>],
      queue |-> [o \in Watchers |-> IF o \in frozen THEN <<>> ELSE q[o]],
      observing |-> [o \in Watchers |-> IF o \in frozen THEN {} ELSE obs[o]]]

\* a freeze that asks the triggering feed for its records again
FreezeRefetch(q, obs, trigger, mutations) ==
  LET frozen == SeqToSet(registry)
  IN [ok |-> TRUE,
      records |-> [i \in 1..Len(registry) |-> q[registry[i]]],
      queue |-> [o \in Watchers |-> IF o \in frozen THEN <<>> ELSE q[o]],
      observing |-> [o \in Watchers |-> IF o \in frozen THEN {} ELSE obs[o]]]

FirstBroken ==
  LET bad == {i \in 1..Len(registry) : created[registry[i]] # "live"}
  IN IF bad = {} THEN 0 ELSE CHOOSE i \in bad : \A j \in bad : i <= j

Freeze(q, obs, trigger, mutations) ==
  LET n == IF FirstBroken = 0 THEN Len(registry) ELSE FirstBroken - 1
      frozen == {registry[i] : i \in 1..n}
  IN [ok |-> FirstBroken = 0,
      records |-> [i \in 1..n |->
                     IF registry[i] = trigger THEN mutations ELSE q[registry[i]]],
      queue |-> [o \in Watchers |-> IF o \in frozen THEN <<>> ELSE q[o]],
      observing |-> [o \in Watchers |-> IF o \in frozen THEN {} ELSE obs[o]]]

\* where a cycle that has frozen its feeds goes on
AfterFreeze(kind) ==
  IF registry # <<>> THEN "dispatch"
  ELSE IF kind = "deliver" THEN "resume" ELSE "action"

\* the control state of an operation that ended, normally or by an exception
Idle ==
  /\ pc' = "idle" /\ op' = NoOp /\ records' = <<>> /\ idx' = 0

\* an operation enters a cycle with the feeds in state f
EnterCycle(kind, w, arg, f) ==
  /\ queue' = f.queue
  /\ observing' = f.observing
  /\ cycles' = IF kind = "deliver" THEN cycles + 1 ELSE 0
  /\ IF f.ok
     THEN /\ pc' = AfterFreeze(kind)
          /\ op' = [kind |-> kind, w |-> w, arg |-> arg]
          /\ records' = f.records
          /\ idx' = 1
     ELSE Idle

(***************************************************************************)
(* new TextObserver(callback, target, processExisting, performanceOptions) *)
(* lines 154-205.  target "document" stands for the document.              *)
(***************************************************************************)
Construct(w, kind, target, processExisting, opts) ==
  /\ pc = "idle"
  /\ created[w] = "none"
  /\ \A o \in Watchers : o < w => created[o] # "none"
  /\ LET whole == target = "document"
         thrown == whole /\ ThrowsKind(kind, title)
         inert == whole /\ ~thrown /\ ~hasBody
         root == IF whole THEN "body" ELSE target
         f == Freeze(queue, observing, 0, <<>>)
         scan == ~thrown /\ ~inert /\ processExisting
         built == ~thrown /\ ~inert /\ (~processExisting \/ f.ok)
     IN /\ title' = IF whole /\ ~thrown THEN ApplyKind(kind, w, title) ELSE title
        /\ log' = IF whole /\ scan /\ f.ok
                  THEN <<Invocation(w, "title", "", title)>> ELSE <<>>
        /\ callback' = [callback EXCEPT ![w] = IF built \/ inert THEN kind ELSE @]
        /\ options' = [options EXCEPT ![w] = IF built \/ inert THEN opts ELSE @]
        /\ targets' = [targets EXCEPT ![w] = IF built THEN <<root>> ELSE @]
        /\ IF scan
           THEN /\ EnterCycle("construct", w, FALSE, f)
                /\ created' = [created EXCEPT ![w] = IF f.ok THEN "constructing" ELSE @]
                /\ UNCHANGED registry
           ELSE /\ Idle
                /\ created' = [created EXCEPT
                     ![w] = IF thrown THEN @ ELSE IF inert THEN "inert" ELSE "live"]
                /\ observing' = [observing EXCEPT
                     ![w] = IF built THEN {root} ELSE @]
                /\ registry' = IF built THEN SetAdd(registry, w) ELSE registry
                /\ cycles' = 0
                /\ UNCHANGED queue
  /\ UNCHANGED <<parent, text, attr, shadow, hasBody, processed, connected,
                 edits, calls>>

(***************************************************************************)
(* disconnect(flush), lines 207-218, and reconnect(reprocess), lines       *)
(* 220-234.  On an inert object #observer is undefined: the last statement *)
(* of disconnect throws a TypeError.                                       *)
(***************************************************************************)
ApiCall ==
  /\ pc = "idle"
  /\ edits + calls < MaxOps
  /\ calls' = calls + 1
  /\ log' = <<>>
  /\ UNCHANGED <<docVars, created, callback, options, targets, processed, edits>>

\* a disconnect that leaves the registry but forgets to stop its own feed
DisconnectTailFeedOn(w, q, obs, reg) ==
  [queue |-> q, observing |-> obs, registry |-> SetDelete(reg, w)]

\* lines 216-217
DisconnectTail(w, q, obs, reg) ==
  IF created[w] = "live"
  THEN [queue |-> [q EXCEPT ![w] = <<>>],
        observing |-> [obs EXCEPT ![w] = {}],
        registry |-> SetDelete(reg, w)]
  ELSE [queue |-> q, observing |-> obs, registry |-> reg]

\* an end of reconnect that registers the feed of every watcher
ReconnectTailResumingAll(w, q, obs, reg, tgts) ==
  [queue |-> q,
   observing |-> [o \in Watchers |-> obs[o] \cup SeqToSet(tgts[o])],
   registry |-> SetAdd(reg, w)]

\* lines 232-233
ReconnectTail(w, q, obs, reg, tgts) ==
  [queue |-> q,
   observing |-> [obs EXCEPT ![w] = @ \cup SeqToSet(tgts[w])],
   registry |-> SetAdd(reg, w)]

\* a disconnect without the test of line 208
DisconnectAlways(w, flush) ==
  /\ ApiCall
  /\ created[w] \in {"live", "inert"}
  /\ connected' = [connected EXCEPT ![w] = FALSE]
  /\ IF flush
     THEN /\ EnterCycle("disconnect", w, flush,
                        Freeze(queue, observing, 0, <<>>))
          /\ UNCHANGED registry
     ELSE LET t == DisconnectTail(w, queue, observing, registry)
          IN /\ Idle
             /\ queue' = t.queue
             /\ observing' = t.observing
             /\ registry' = t.registry
             /\ cycles' = 0

Disconnect(w, flush) ==
  /\ ApiCall
  /\ created[w] \in {"live", "inert"}
  /\ IF ~connected[w]
     THEN /\ Idle
          /\ UNCHANGED <<connected, observing, queue, registry, cycles>>
     ELSE /\ connected' = [connected EXCEPT ![w] = FALSE]
          /\ IF flush
             THEN /\ EnterCycle("disconnect", w, flush,
                                Freeze(queue, observing, 0, <<>>))
                  /\ UNCHANGED registry
             ELSE LET t == DisconnectTail(w, queue, observing, registry)
                  IN /\ Idle
                     /\ queue' = t.queue
                     /\ observing' = t.observing
                     /\ registry' = t.registry
                     /\ cycles' = 0

Reconnect(w, reprocess) ==
  /\ ApiCall
  /\ created[w] \in {"live", "inert"}
  /\ IF connected[w]
     THEN /\ Idle
          /\ UNCHANGED <<connected, observing, queue, registry, cycles>>
     ELSE /\ connected' = [connected EXCEPT ![w] = TRUE]
          /\ IF reprocess
             THEN /\ EnterCycle("reconnect", w, reprocess,
                                Freeze(queue, observing, 0, <<>>))
                  /\ UNCHANGED registry
             ELSE LET t == ReconnectTail(w, queue, observing, registry, targets)
                  IN /\ Idle
                     /\ queue' = t.queue
                     /\ observing' = t.observing
                     /\ registry' = t.registry
                     /\ cycles' = 0

(***************************************************************************)
(* The host delivers the queue of an observer to its callback, lines       *)
(* 183-190.  Observers are notified in creation order.                     *)
(***************************************************************************)
Deliver(w) ==
  /\ pc = "idle"
  /\ queue[w] # <<>>
  /\ \A o \in Watchers : o < w => queue[o] = <<>>
  /\ EnterCycle("deliver", w, FALSE,
                Freeze([queue EXCEPT ![w] = <<>>], observing, w, queue[w]))
  /\ log' = <<>>
  /\ UNCHANGED <<docVars, created, callback, options, targets, processed,
                 connected, registry, edits, calls>>

(***************************************************************************)
(* The rest of a cycle                                                     *)
(***************************************************************************)
\* what a run leaves behind
Commit(s) ==
  /\ text' = s.text
  /\ attr' = s.attr
  /\ processed' = s.processed
  /\ targets' = s.targets
  /\ observing' = s.observing
  /\ queue' = s.queue

\* the object of a constructor that threw is never seen by anyone
Discard(w, s) ==
  [s EXCEPT !.targets[w] = <<>>, !.processed[w] = {}]

\* an exception that undoes the writes of the run it aborts
AbortRollingBack(s) ==
  /\ Idle
  /\ log' = <<>>
  /\ Commit(Run0)
  /\ IF op.kind = "construct"
     THEN created' = [created EXCEPT ![op.w] = "failed"]
     ELSE UNCHANGED created
  /\ UNCHANGED registry

\* the callback threw: the exception leaves the operation where it is
Abort(s) ==
  /\ Idle
  /\ log' = <<>>
  /\ IF op.kind = "construct"
     THEN /\ Commit(Discard(op.w, s))
          /\ created' = [created EXCEPT ![op.w] = "failed"]
     ELSE /\ Commit(s)
          /\ UNCHANGED created
  /\ UNCHANGED registry

\* a dispatch loop that walks the registry backwards
TurnBackwards(reg, i) == reg[Len(reg) + 1 - i]

\* a dispatch loop that hands every batch to the first member
TurnFirst(reg, i) == reg[1]

\* line 303: the i-th member the for-of loop over the registry yields
Turn(reg, i) == reg[i]

\* lines 191-195 and 302-306: one turn of the dispatch loop
Dispatch ==
  /\ pc = "dispatch"
  /\ LET s == ObserverCallback(Turn(registry, idx), records[idx], Run0)
     IN IF s.err THEN Abort(s)
        ELSE /\ Commit(s)
             /\ log' = s.log
             /\ idx' = idx + 1
             /\ pc' = IF idx < Len(registry) THEN "dispatch"
                      ELSE IF op.kind = "deliver" THEN "resume" ELSE "action"
             /\ UNCHANGED <<op, records, created, registry>>
  /\ UNCHANGED <<parent, shadow, title, hasBody, callback, options, connected,
                 cycles, edits, calls>>

\* a scan of the first target only
ScanFirstTarget(w, i, clear, s) ==
  IF s.targets[w] = <<>> THEN s
  ELSE ProcessNodes(w, s.targets[w][1],
                    IF clear THEN [s EXCEPT !.processed[w] = {}] ELSE s)

\* this.#targets.forEach(...): a Set's forEach also visits the members added
\* while it runs; `clear` is the this.#processed.clear() of line 228
RECURSIVE ScanTargets(_, _, _, _)
ScanTargets(w, i, clear, s) ==
  IF s.err \/ i > Len(s.targets[w]) THEN s
  ELSE ScanTargets(w, i + 1, clear,
                   ProcessNodes(w, s.targets[w][i],
                                IF clear THEN [s EXCEPT !.processed[w] = {}] ELSE s))

\* line 307: the callback handed to #flushAndSleepDuring (lines 180, 214, 227)
CallerAction ==
  /\ pc = "action"
  /\ LET s == CASE op.kind = "construct" -> ScanTargets(op.w, 1, FALSE, Run0)
                [] op.kind = "reconnect" -> ScanTargets(op.w, 1, TRUE, Run0)
                [] OTHER -> Run0
     IN IF s.err THEN Abort(s)
        ELSE /\ Commit(s)
             /\ log' = s.log
             /\ pc' = "resume"
             /\ UNCHANGED <<op, records, idx, created, registry>>
  /\ UNCHANGED <<parent, shadow, title, hasBody, callback, options, connected,
                 cycles, edits, calls>>

\* a resume that restarts the feed of every constructed watcher
ResumedAll(obs) ==
  [o \in Watchers |->
     IF created[o] = "live" THEN obs[o] \cup SeqToSet(targets[o]) ELSE obs[o]]

\* a resume that observes only the first target of every member
ResumedFirstTarget(obs) ==
  [o \in Watchers |->
     IF o \in SeqToSet(registry) /\ created[o] = "live" /\ targets[o] # <<>>
     THEN obs[o] \cup {targets[o][1]} ELSE obs[o]]

\* lines 197-199 and 308-310: every member of the registry observes its targets
Resumed(obs) ==
  [o \in Watchers |->
     IF o \in SeqToSet(registry) /\ created[o] = "live"
     THEN obs[o] \cup SeqToSet(targets[o]) ELSE obs[o]]

\* an end of operation in which reconnect applies the callback to the title
FinishRetitling ==
  /\ pc = "resume"
  /\ Idle
  /\ LET obs == Resumed(observing)
         t == CASE op.kind = "disconnect" ->
                     DisconnectTail(op.w, queue, obs, registry)
                [] op.kind \in {"reconnect", "construct"} ->
                     ReconnectTail(op.w, queue, obs, registry, targets)
                [] OTHER ->
                     [queue |-> queue, observing |-> obs, registry |-> registry]
     IN /\ queue' = t.queue
        /\ observing' = t.observing
        /\ registry' = t.registry
  /\ created' = IF op.kind = "construct"
                THEN [created EXCEPT ![op.w] = "live"] ELSE created
  /\ log' = <<>>
  /\ title' = IF op.kind = "reconnect" THEN Apply(op.w, title) ELSE title
  /\ UNCHANGED <<parent, text, attr, shadow, hasBody, callback, options, targets,
                 processed, connected, cycles, edits, calls>>

\* the resume of the cycle and what the operation does after it:
\* lines 183-204 of the constructor, 216-217 of disconnect, 232-233 of reconnect
Finish ==
  /\ pc = "resume"
  /\ Idle
  /\ LET obs == Resumed(observing)
         t == CASE op.kind = "disconnect" ->
                     DisconnectTail(op.w, queue, obs, registry)
                [] op.kind \in {"reconnect", "construct"} ->
                     ReconnectTail(op.w, queue, obs, registry, targets)
                [] OTHER ->
                     [queue |-> queue, observing |-> obs, registry |-> registry]
     IN /\ queue' = t.queue
        /\ observing' = t.observing
        /\ registry' = t.registry
  /\ created' = IF op.kind = "construct"
                THEN [created EXCEPT ![op.w] = "live"] ELSE created
  /\ log' = <<>>
  /\ UNCHANGED <<docVars, callback, options, targets, processed, connected,
                 cycles, edits, calls>>

(***************************************************************************)
(* Specification: a page with a body whose host element has its shadow     *)
(* root; the page rewrites a text node, resets a placeholder and moves a   *)
(* subtree; observers with the default options and callbacks that never    *)
(* throw are constructed, disconnected and reconnected at any time.        *)
(***************************************************************************)
Init ==
  /\ InitDocument(TRUE, TRUE)
  /\ InitObjects

PageEdit ==
  \/ ExtSetText("t1", ExtValue)
  \/ ExtSetAttr("inp", "placeholder", ExtValue)
  \/ ExtAppend("div", "body")

New ==
  \E w \in Watchers : \E scan \in BOOLEAN :
    Construct(w, "append", "document", scan, DefaultOptions)

CallDisconnect == \E w \in Watchers : \E flush \in BOOLEAN : Disconnect(w, flush)

CallReconnect == \E w \in Watchers : \E reprocess \in BOOLEAN : Reconnect(w, reprocess)

FeedDelivers == \E w \in Watchers : Deliver(w)

Next ==
  \/ PageEdit
  \/ New
  \/ CallDisconnect
  \/ CallReconnect
  \/ FeedDelivers
  \/ Dispatch
  \/ CallerAction
  \/ Finish

Spec == Init /\ [][Next]_vars

(***************************************************************************)
(* Specification: the same page and operations in a document that has no   *)
(* body (document.body is null), where an observer constructed on the      *)
(* document returns early from its constructor.                            *)
(***************************************************************************)
InitNoBody ==
  /\ InitDocument(TRUE, FALSE)
  /\ InitObjects

\* observers are constructed on the document or on an element
NewAnywhere ==
  \E w \in Watchers : \E target \in {"document", "div"} : \E scan \in BOOLEAN :
    Construct(w, "append", target, scan, DefaultOptions)

NextNoBody ==
  \/ PageEdit
  \/ NewAnywhere
  \/ CallDisconnect
  \/ CallReconnect
  \/ FeedDelivers
  \/ Dispatch
  \/ CallerAction
  \/ Finish

SpecNoBody == InitNoBody /\ [][NextNoBody]_vars

(***************************************************************************)
(* Specification: a page whose host element gets its shadow root while     *)
(* observers exist: the page calls host.attachShadow() and puts a text     *)
(* node into the new shadow tree.                                          *)
(***************************************************************************)
InitAttach ==
  /\ InitDocument(FALSE, TRUE)
  /\ InitObjects

PageEditAttach ==
  \/ ExtSetText("ts", ExtValue)
  \/ ExtAppend("ts", "sr")

PageAttaches == AttachShadow("host")

NextAttach ==
  \/ PageEditAttach
  \/ PageAttaches
  \/ New
  \/ CallDisconnect
  \/ CallReconnect
  \/ FeedDelivers
  \/ Dispatch
  \/ CallerAction
  \/ Finish

SpecAttach == InitAttach /\ [][NextAttach]_vars

(***************************************************************************)
(* Specification: the page and operations of Spec with observers whose     *)
(* callback returns the empty string for every input.                      *)
(***************************************************************************)
NewBlank ==
  \E w \in Watchers : \E scan \in BOOLEAN :
    Construct(w, "blank", "document", scan, DefaultOptions)

NextBlank ==
  \/ PageEdit
  \/ NewBlank
  \/ CallDisconnect
  \/ CallReconnect
  \/ FeedDelivers
  \/ Dispatch
  \/ CallerAction
  \/ Finish

SpecBlank == Init /\ [][NextBlank]_vars

(***************************************************************************)
(* Specification: observers are constructed on the document or on the      *)
(* <input> element, on a page that may have emptied the placeholder.       *)
(***************************************************************************)
PageEditCold ==
  \/ ExtSetText("t1", ExtValue)
  \/ ExtSetAttr("inp", "placeholder", <<>>)
  \/ ExtSetAttr("inp", "placeholder", ExtValue)

NewCold ==
  \E w \in Watchers : \E target \in {"document", "inp"} : \E scan \in BOOLEAN :
    Construct(w, "append", target, scan, DefaultOptions)

NextCold ==
  \/ PageEditCold
  \/ NewCold
  \/ CallDisconnect
  \/ CallReconnect
  \/ FeedDelivers
  \/ Dispatch
  \/ CallerAction
  \/ Finish

SpecCold == Init /\ [][NextCold]_vars

(***************************************************************************)
(* Specification: the page and operations of Spec with observers whose     *)
(* callback is the identity function.                                      *)
(***************************************************************************)
NewIdentity ==
  \E w \in Watchers : \E scan \in BOOLEAN :
    Construct(w, "identity", "document", scan, DefaultOptions)

NextIdentity ==
  \/ PageEdit
  \/ NewIdentity
  \/ CallDisconnect
  \/ CallReconnect
  \/ FeedDelivers
  \/ Dispatch
  \/ CallerAction
  \/ Finish

SpecIdentity == Init /\ [][NextIdentity]_vars

(***************************************************************************)
(* Specification: the page moves a text node and a subtree around below    *)
(* the body.                                                               *)
(***************************************************************************)
PageEditInsert ==
  \/ \E p \in {"div", "body"} : ExtAppend("t1", p)
  \/ ExtAppend("div", "body")

NextInsert ==
  \/ PageEditInsert
  \/ New
  \/ CallDisconnect
  \/ CallReconnect
  \/ FeedDelivers
  \/ Dispatch
  \/ CallerAction
  \/ Finish

SpecInsert == Init /\ [][NextInsert]_vars

(***************************************************************************)
(* Specification: a page whose <input> carries two watched attributes,     *)
(* placeholder and title; the page resets either, removes the placeholder, *)
(* and gives the <div>, which no placeholder selector matches, a           *)
(* placeholder.                                                            *)
(***************************************************************************)
InitAttr ==
  /\ shadow = {}
  /\ parent = [n \in Nodes |->
                 CASE n = "div" -> "body"
                   [] n \in {"t1", "inp", "host"} -> "div"
                   [] OTHER -> NULL]
  /\ text = [n \in TextNodes |-> InitValue]
  /\ attr = [u \in {<<"inp", "placeholder">>, <<"inp", "title">>} |-> InitValue]
  /\ title = InitValue
  /\ hasBody = TRUE
  /\ InitObjects

PageEditAttr ==
  \/ \E name \in AttrNames : ExtSetAttr("inp", name, ExtValue)
  \/ ExtAddAttr("div", "placeholder", ExtValue)
  \/ ExtRemoveAttr("inp", "placeholder")

NextAttr ==
  \/ PageEditAttr
  \/ New
  \/ CallDisconnect
  \/ CallReconnect
  \/ FeedDelivers
  \/ Dispatch
  \/ CallerAction
  \/ Finish

SpecAttr == InitAttr /\ [][NextAttr]_vars

(***************************************************************************)
(* Specification: observers whose callback throws on the value Poison, on  *)
(* a page that writes that value to a text node and to the placeholder.    *)
(***************************************************************************)
PageEditFailing ==
  \/ \E v \in {ExtValue, Poison} : ExtSetText("t1", v)
  \/ ExtSetAttr("inp", "placeholder", Poison)

NewFailing ==
  \E w \in Watchers : \E scan \in BOOLEAN :
    Construct(w, "failing", "document", scan, DefaultOptions)

NextFailing ==
  \/ PageEditFailing
  \/ NewFailing
  \/ CallDisconnect
  \/ CallReconnect
  \/ FeedDelivers
  \/ Dispatch
  \/ CallerAction
  \/ Finish

SpecFailing == Init /\ [][NextFailing]_vars

(***************************************************************************)
(* Specification: the body holds a <noscript> element, and the page moves  *)
(* the text node and the <div> into it and edits the text.                 *)
(***************************************************************************)
InitExcluded ==
  /\ shadow = {}
  /\ parent = [n \in Nodes |->
                 CASE n \in {"div", "nos"} -> "body"
                   [] n \in {"t1", "inp", "host"} -> "div"
                   [] OTHER -> NULL]
  /\ text = [n \in TextNodes |-> InitValue]
  /\ attr = [p \in {<<"inp", "placeholder">>} |-> InitValue]
  /\ title = InitValue
  /\ hasBody = TRUE
  /\ InitObjects

PageEditExcluded ==
  \/ ExtSetText("t1", ExtValue)
  \/ \E n \in {"t1", "div"} : ExtAppend(n, "nos")
  \/ ExtAppend("t1", "div")

NextExcluded ==
  \/ PageEditExcluded
  \/ New
  \/ CallDisconnect
  \/ CallReconnect
  \/ FeedDelivers
  \/ Dispatch
  \/ CallerAction
  \/ Finish

SpecExcluded == InitExcluded /\ [][NextExcluded]_vars

(***************************************************************************)
(* Specification: observers are constructed with the attributes option on  *)
(* or off; the page resets the placeholder and re-inserts the <div>.       *)
(***************************************************************************)
PageEditAttributesOption ==
  \/ ExtSetAttr("inp", "placeholder", ExtValue)
  \/ ExtAppend("div", "body")

NewAttributesOption ==
  \E w \in Watchers : \E scan \in BOOLEAN : \E a \in BOOLEAN :
    Construct(w, "append", "document", scan,
              [DefaultOptions EXCEPT !.attributes = a])

NextAttributesOption ==
  \/ PageEditAttributesOption
  \/ NewAttributesOption
  \/ CallDisconnect
  \/ CallReconnect
  \/ FeedDelivers
  \/ Dispatch
  \/ CallerAction
  \/ Finish

SpecAttributesOption == InitAttr /\ [][NextAttributesOption]_vars

(***************************************************************************)
(* Specification: the <div> carries a title attribute, which the selector  *)
(* of title matches on every element; the page re-inserts the <div>,       *)
(* resets its title and edits the text.                                    *)
(***************************************************************************)
InitOwnAttr ==
  /\ shadow = {}
  /\ parent = [n \in Nodes |->
                 CASE n = "div" -> "body"
                   [] n \in {"t1", "inp", "host"} -> "div"
                   [] OTHER -> NULL]
  /\ text = [n \in TextNodes |-> InitValue]
  /\ attr = [u \in {<<"inp", "placeholder">>, <<"div", "title">>} |-> InitValue]
  /\ title = InitValue
  /\ hasBody = TRUE
  /\ InitObjects

PageEditOwnAttr ==
  \/ ExtAppend("div", "body")
  \/ ExtSetAttr("div", "title", ExtValue)
  \/ ExtSetText("t1", ExtValue)

NextOwnAttr ==
  \/ PageEditOwnAttr
  \/ New
  \/ CallDisconnect
  \/ CallReconnect
  \/ FeedDelivers
  \/ Dispatch
  \/ CallerAction
  \/ Finish

SpecOwnAttr == InitOwnAttr /\ [][NextOwnAttr]_vars

(***************************************************************************)
(* Specification: observers constructed with the shadows option off; the   *)
(* page attaches a shadow root to the host, fills it and edits its text.   *)
(***************************************************************************)
NewShadowsOff ==
  \E w \in Watchers : \E scan \in BOOLEAN :
    Construct(w, "append", "document", scan,
              [DefaultOptions EXCEPT !.shadows = FALSE])

NextShadowsOff ==
  \/ PageEditAttach
  \/ PageAttaches
  \/ NewShadowsOff
  \/ CallDisconnect
  \/ CallReconnect
  \/ FeedDelivers
  \/ Dispatch
  \/ CallerAction
  \/ Finish

SpecShadowsOff == InitAttach /\ [][NextShadowsOff]_vars

(***************************************************************************)
(* Specification: the page edits a text node, removes it from the tree and *)
(* puts it back, and resets the placeholder.                               *)
(***************************************************************************)
PageEditDetach ==
  \/ ExtSetText("t1", ExtValue)
  \/ ExtRemove("t1")
  \/ ExtAppend("t1", "div")
  \/ ExtSetAttr("inp", "placeholder", ExtValue)

NextDetach ==
  \/ PageEditDetach
  \/ New
  \/ CallDisconnect
  \/ CallReconnect
  \/ FeedDelivers
  \/ Dispatch
  \/ CallerAction
  \/ Finish

SpecDetach == Init /\ [][NextDetach]_vars

(***************************************************************************)
(* Properties                                                              *)
(***************************************************************************)
\* the number of times watcher w's callback was invoked on a unit (a text node,
\* or an element and an attribute name) in the operation in progress
Count(w, n, name) ==
  Cardinality({i \in 1..Len(log) :
                 log[i].w = w /\ log[i].n = n /\ log[i].name = name})

\* the registry positions whose batch has been processed in the running cycle
Dispatched == IF pc = "idle" THEN {} ELSE 1..(idx - 1)

\* the rewritable units of watcher w among the nodes ns: the valid text nodes
\* and, with the attributes option, the present watched attributes of matching
\* elements
UnitsAmong(w, ns) ==
  {<<n, "">> : n \in {m \in ns \cap TextNodes : Valid(w, m)}}
  \cup {u \in DOMAIN attr :
          /\ u[1] \in ns /\ options[w].attributes /\ Matches(u[1], u[2])
          /\ attr[u] # <<>>}

\* the rewritable units a batch implicates: an edited text node, a set
\* attribute, an added text node, the units below an added element
BatchUnits(w, batch) ==
  UNION {IF batch[k].type = "childList"
         THEN UNION {IF n \in TextNodes THEN UnitsAmong(w, {n})
                     ELSE UnitsAmong(w, SeqToSet(DescendantsOf(parent, n)))
                     : n \in SeqToSet(batch[k].added)}
         ELSE UnitsAmong(w, {batch[k].target})
         : k \in 1..Len(batch)}

\* the current value of a unit
ValueOf(u) == IF u[2] = "" THEN text[u[1]] ELSE attr[u]

\* the positions in log of watcher w's invocations on unit u
Hits(w, u) ==
  {i \in 1..Len(log) : log[i].w = w /\ log[i].n = u[1] /\ log[i].name = u[2]}

Min(S) == CHOOSE i \in S : \A j \in S : i <= j
Max(S) == CHOOSE i \in S : \A j \in S : i >= j

AllUnits == {<<n, "">> : n \in TextNodes} \cup (Elements \X AttrNames)

\* C1: in the batch of one watcher the callback is applied exactly once to
\* every unit the batch implicates: never twice to any text node or
\* (element, attribute) pair, and once to every rewritable unit a record names.
C1_ExactlyOncePerBatch ==
  \A i \in Dispatched :
    LET w == registry[i]
    IN /\ \A n \in Nodes : \A name \in {""} \cup AttrNames : Count(w, n, name) <= 1
       /\ \A u \in BatchUnits(w, records[i]) : Count(w, u[1], u[2]) = 1

\* C2: with watcher A before watcher B in the registry and neither ever
\* disconnected, a unit both rewrite in a cycle is rewritten by A before B,
\* B's callback receives A's output, and the unit ends as B(A(v)).
C2_PipelineOrder ==
  (pc = "resume" /\ calls = 0) =>
    \A i, j \in 1..Len(registry) : \A u \in AllUnits :
      LET a == registry[i]
          b == registry[j]
      IN (i < j /\ Hits(a, u) # {} /\ Hits(b, u) # {}) =>
           /\ Max(Hits(a, u)) < Min(Hits(b, u))
           /\ log[Min(Hits(b, u))].in = Apply(a, log[Min(Hits(a, u))].in)
           /\ ValueOf(u) = Apply(b, Apply(a, log[Min(Hits(a, u))].in))

\* C3: from the freeze of a cycle until its resume no registered watcher's
\* feed is registered on any node, and no write made in the cycle is queued as
\* a notification for any watcher.
C3_FrozenDuringCycle ==
  pc # "idle" =>
    /\ \A w \in SeqToSet(registry) : observing[w] = {}
    /\ \A w \in Watchers : queue[w] = <<>>

\* C4: a watcher's own writes never become a notification for that watcher:
\* no record that one of its writes produced is ever in its queue or in the
\* batch handed to it.
C4_NoSelfReaction ==
  /\ \A w \in Watchers : \A k \in 1..Len(queue[w]) : queue[w][k].by # {w}
  /\ \A i \in 1..Len(records) : \A k \in 1..Len(records[i]) :
       records[i][k].by # {registry[i]}

\* C5: from a quiescent state one page edit causes exactly one cycle: the
\* feeds never deliver twice in a row, and after the delivery no
\* notification is pending for any watcher.
C5_OneCyclePerEdit ==
  (edits <= 1 /\ calls = 0) =>
    /\ cycles <= 1
    /\ (pc = "idle" /\ cycles = 1) => \A w \in Watchers : queue[w] = <<>>

\* the position of a member in the registry
Pos(w) == CHOOSE i \in 1..Len(registry) : registry[i] = w

Registered == SeqToSet(registry)

\* C6: the batch runs of different watchers never overlap: in a cycle the
\* invocations come watcher by watcher in registry order, the caller's scan
\* comes after all of them, and no cycle begins while another is in progress.
C6_MutualExclusion ==
  /\ [](\A k, l \in 1..Len(log) :
          (k < l /\ log[k].n # "title") =>
             IF log[k].w \in Registered
             THEN log[l].w \in Registered => Pos(log[k].w) <= Pos(log[l].w)
             ELSE log[l].w = log[k].w /\ pc # "dispatch")
  /\ [][pc # "idle" => (pc' = "idle" \/ op' = op)]_vars

C6_Witness ==
  /\ pc = "resume"
  /\ \E k, l \in 1..Len(log) :
       /\ log[k].w \in Registered /\ log[l].w \in Registered
       /\ Pos(log[k].w) < Pos(log[l].w)

\* C7: when no operation is in progress, the registry holds exactly the
\* watchers whose connected flag is true.
C7_RegistryIsConnected ==
  pc = "idle" =>
    Registered = {w \in Watchers :
                    created[w] \notin {"none", "failed"} /\ connected[w]}

\* C8: disconnect(true) hands the watcher every notification that was
\* outstanding at the call, and the watcher has applied its callback to every
\* unit they implicate while it is still in the registry, before its feed is
\* stopped.
C8_DisconnectDrains ==
  /\ [][(pc = "idle" /\ pc' # "idle" /\ op'.kind = "disconnect") =>
          /\ op'.w \in Registered
          /\ records'[Pos(op'.w)] = queue[op'.w]]_vars
  /\ []((pc = "resume" /\ op.kind = "disconnect") =>
          /\ op.w \in Registered
          /\ \A u \in BatchUnits(op.w, records[Pos(op.w)]) : Hits(op.w, u) # {})
  /\ [][(pc = "resume" /\ op.kind = "disconnect") =>
          (op.w \notin SeqToSet(registry') /\ observing'[op.w] = {})]_vars

C8_Witness ==
  /\ pc = "resume" /\ op.kind = "disconnect"
  /\ BatchUnits(op.w, records[Pos(op.w)]) # {}

\* C9: a suspended watcher has no pending notification and no feed, its
\* callback is invoked only while it is registered or scanning itself, and
\* reconnect(false) transforms nothing and leaves nothing pending: what the
\* page wrote while it was suspended stays as written.
C9_HardCancel ==
  /\ [](\A w \in Watchers :
          (pc = "idle" /\ created[w] = "live" /\ ~connected[w]) =>
             (queue[w] = <<>> /\ observing[w] = {} /\ w \notin Registered))
  /\ [](\A k \in 1..Len(log) :
          \/ log[k].w \in Registered
          \/ op.kind \in {"construct", "reconnect"} /\ op.w = log[k].w)
  /\ [][\A w \in Watchers :
          (pc = "idle" /\ pc' = "idle" /\ ~connected[w] /\ connected'[w]) =>
             (text' = text /\ attr' = attr /\ queue'[w] = <<>>)]_vars

C9_Witness ==
  /\ pc = "idle" /\ calls >= 2 /\ registry = <<1>> /\ created[2] = "none"
  /\ connected[1] /\ "body" \in observing[1] /\ queue[1] = <<>>
  /\ parent["div"] = "body" /\ parent["t1"] = "div"
  /\ text["t1"] = ExtValue

\* the nodes below the targets of a watcher
UnderTargets(w) ==
  UNION {SeqToSet(DescendantsOf(parent, t)) : t \in SeqToSet(targets[w])}

C11_RedundantCallsAreNoOps ==
  [][(calls' # calls /\ connected' = connected) =>
       /\ UNCHANGED <<docVars, created, targets, processed, observing, queue,
                      registry>>
       /\ pc' = "idle" /\ log' = <<>>]_vars

\* after a single call, a reconnect, on a connected watcher with a
\* notification pending
C11_Witness ==
  /\ pc = "idle" /\ calls = 1 /\ edits >= 1
  /\ \E w \in Registered :
       created[w] = "live" /\ connected[w] /\ queue[w] # <<>> /\ observing[w] # {}

\* C12: a watcher whose constructor returned early because the document has
\* no body is never a member of the registry and never has a registered feed,
\* whatever disconnect and reconnect calls are made on it.
C12_InertStaysOut ==
  \A w \in Watchers :
    created[w] = "inert" => (w \notin Registered /\ observing[w] = {})

\* a watcher that has returned from disconnect and has not been reconnected
Suspended(w) ==
  /\ created[w] = "live" /\ ~connected[w]
  /\ ~(pc # "idle" /\ op.w = w)

\* C13: while a watcher is suspended it is not in the registry, so it takes
\* part in no freeze and no dispatch, its callback is never invoked, and its
\* feed stays off through the cycles of the other watchers and through a
\* shadow attachment.
C13_SuspendedStaysOut ==
  \A w \in Watchers :
    Suspended(w) =>
      /\ w \notin Registered
      /\ observing[w] = {}
      /\ queue[w] = <<>>
      /\ \A k \in 1..Len(log) : log[k].w # w

\* another watcher's delivery has run, after the host got its shadow root,
\* while a watcher that never saw the shadow root is suspended
C13_Witness ==
  /\ pc = "resume" /\ op.kind = "deliver" /\ shadow = {"host"}
  /\ \E w \in Watchers :
       /\ Suspended(w) /\ "sr" \notin SeqToSet(targets[w])
       /\ \E v \in Registered :
            /\ "sr" \in SeqToSet(targets[v])
            /\ \E k \in 1..Len(log) : log[k].w = v

\* C14: when no operation is in progress every member of the registry has its
\* feed registered on all its targets, those discovered in a cycle included,
\* and a page write to a text node or an attribute below one of its targets
\* is queued for it.
C14_ResumeCoversTargets ==
  /\ [](pc = "idle" =>
          \A w \in Registered : SeqToSet(targets[w]) \subseteq observing[w])
  /\ [][edits' # edits =>
          \A w \in Registered : \A t \in SeqToSet(targets[w]) :
            /\ \A n \in TextNodes :
                 (text'[n] # text[n] /\ Contains(parent, t, n)) =>
                    /\ Len(queue'[w]) = Len(queue[w]) + 1
                    /\ queue'[w][Len(queue'[w])].target = n
            /\ \A u \in DOMAIN attr :
                 (attr'[u] # attr[u] /\ Contains(parent, t, u[1])) =>
                    /\ Len(queue'[w]) = Len(queue[w]) + 1
                    /\ queue'[w][Len(queue'[w])].target = u[1]]_vars

\* a watcher that discovered the shadow host in a cycle has a page write to
\* the text of the shadow tree in its queue
C14_Witness ==
  /\ pc = "idle"
  /\ \E w \in Registered :
       /\ "host" \in SeqToSet(targets[w]) /\ "sr" \in SeqToSet(targets[w])
       /\ \E k \in 1..Len(queue[w]) :
            queue[w][k].target = "ts" /\ queue[w][k].by = {}

\* C15: a cycle takes, for every member of the registry, exactly the
\* notifications that were pending for it when the cycle began (for the
\* watcher whose feed delivered, the batch it was handed); the batches and the
\* registry stay as they are for the whole cycle, the dispatch loop passes
\* every member once, and each member has applied its callback to every unit
\* its batch implicates once its turn is over.
C15_DispatchFidelity ==
  /\ [][(pc = "idle" /\ pc' # "idle") =>
          /\ Len(records') = Len(registry)
          /\ \A i \in 1..Len(registry) : records'[i] = queue[registry[i]]
          /\ \A w \in Registered : queue'[w] = <<>>]_vars
  /\ [][(pc # "idle" /\ pc' # "idle") =>
          /\ records' = records /\ registry' = registry
          /\ (pc = "dispatch" => idx' = idx + 1)
          /\ (pc # "dispatch" => idx' = idx)]_vars
  /\ [](pc \in {"action", "resume"} =>
          (registry = <<>> \/ idx = Len(registry) + 1))
  /\ [](\A i \in Dispatched :
          \A u \in BatchUnits(registry[i], records[i]) :
            Hits(registry[i], u) # {})

\* a delivery in which two watchers each had a page write to process
C15_Witness ==
  /\ pc = "resume" /\ op.kind = "deliver" /\ Len(registry) = 2
  /\ \A i \in 1..2 :
       /\ \E k \in 1..Len(records[i]) : records[i][k].by = {}
       /\ BatchUnits(registry[i], records[i]) # {}

\* C16: in a batch run the callback is applied to a text node only on account
\* of a record that warrants it: a text-edit record of that node whose prior
\* value differs from the value the node has when it is processed, or an
\* insertion.
C16_TextEditGuard ==
  \A i \in Dispatched : \A n \in TextNodes :
    LET w == registry[i]
        hits == Hits(w, <<n, "">>)
    IN hits # {} =>
         \E k \in 1..Len(records[i]) :
           LET m == records[i][k]
           IN \/ m.type = "childList" /\ m.added # <<>>
              \/ /\ m.type = "characterData" /\ m.target = n
                 /\ m.old # log[Min(hits)].in

\* C17: a callback result that is the empty string is never written: no text
\* node and no attribute that held a value ends up empty.
C17_NoBlanking ==
  /\ \A n \in TextNodes : text[n] # <<>>
  /\ \A u \in DOMAIN attr : attr[u] # <<>>

\* the nodes of the subtree of root, the nested shadow trees included
ScanScope(root) ==
  LET light == {root} \cup SeqToSet(DescendantsOf(parent, root))
      roots == {ShadowOf(e) : e \in light \cap shadow}
  IN light \cup roots
       \cup UNION {SeqToSet(DescendantsOf(parent, r)) : r \in roots}

\* C18: when the scan of a constructor is over, the callback has been applied
\* exactly once to every unit of the subtree of the target (the valid text
\* nodes, the present non-empty watched attributes of matching elements, and
\* the units of the nested shadow trees) and to nothing else.
C18_ColdScanCount ==
  (pc = "resume" /\ op.kind = "construct") =>
    LET w == op.w
        units == UnitsAmong(w, ScanScope(targets[w][1]))
    IN /\ \A u \in units : Count(w, u[1], u[2]) = 1
       /\ Cardinality({k \in 1..Len(log) :
                         log[k].w = w /\ log[k].n # "title"})
            = Cardinality(units)
       /\ \A k \in 1..Len(log) :
            (log[k].w = w /\ log[k].name \in AttrNames) => log[k].in # <<>>

Inserted(batch) ==
  UNION {SeqToSet(batch[k].added) : k \in 1..Len(batch)}

\* C20: a watcher that has processed a batch of insertion records has applied
\* its callback exactly once to every valid text node that was inserted or
\* lies below an inserted element, and to nothing outside the inserted
\* subtrees (their attributes and nested shadow trees belong to them).
C20_InsertionSweep ==
  \A i \in Dispatched :
    LET w == registry[i]
        ins == Inserted(records[i])
        below == UNION {SeqToSet(DescendantsOf(parent, n)) : n \in ins}
        scope == UNION {ScanScope(n) : n \in ins}
    IN (\A k \in 1..Len(records[i]) : records[i][k].type = "childList") =>
         /\ \A n \in (ins \cup below) \cap TextNodes :
              Valid(w, n) => Count(w, n, "") = 1
         /\ \A k \in 1..Len(log) : log[k].w = w => log[k].n \in scope

\* a batch that reports a directly inserted text node and an inserted element
\* has been processed
C20_Witness ==
  /\ pc = "resume" /\ op.kind = "deliver"
  /\ \E i \in Dispatched :
       /\ \A k \in 1..Len(records[i]) : records[i][k].type = "childList"
       /\ {"t1", "div"} \subseteq Inserted(records[i])
       /\ Count(registry[i], "t1", "") = 1
       /\ Count(registry[i], "inp", "placeholder") = 1

\* the (element, attribute) pairs the page's attribute records of a batch name
EditedAttrs(batch) ==
  {<<batch[k].target, batch[k].name>> :
     k \in {j \in 1..Len(batch) : batch[j].type = "attributes" /\ batch[j].by = {}}}

EditedTexts(batch) ==
  {batch[k].target : k \in {j \in 1..Len(batch) : batch[j].type = "characterData"}}

\* C23: a batch run in which the callback throws ends the operation at once
\* (the exception reaches the caller); every unit holds either the value it
\* had or the callback's result for it; the edited text nodes, which are
\* processed before any attribute, hold the result when the failure came
\* with an attribute, and no attribute is written when the failure came with
\* a text node; the value the callback threw on stays as it was.
C23_TransformFailure ==
  [][(pc = "dispatch" /\ pc' = "idle") =>
       LET w == registry[idx]
           edited == {n \in EditedTexts(records[idx]) : Valid(w, n)}
           inText == \E n \in edited : text[n] = Poison
       IN /\ op' = NoOp /\ registry' = registry
          /\ \A n \in TextNodes : text'[n] \in {text[n], Apply(w, text[n])}
          /\ \A u \in DOMAIN attr : attr'[u] \in {attr[u], Apply(w, attr[u])}
          /\ \A n \in TextNodes : text[n] = Poison => text'[n] = Poison
          /\ \A u \in DOMAIN attr : attr[u] = Poison => attr'[u] = Poison
          /\ ~inText => \A n \in edited : text'[n] = Apply(w, text[n])
          /\ inText => attr' = attr]_vars

\* after an aborted batch: the text node the page edited holds the callback's
\* result, the placeholder still holds the value the callback threw on, and
\* the watcher's feed is still off
C23_Witness ==
  /\ pc = "idle" /\ registry = <<1>> /\ observing[1] = {}
  /\ text["t1"] = ApplyKind("failing", 1, ExtValue)
  /\ attr[<<"inp", "placeholder">>] = Poison

\* C24: the callback is never applied to a text node that has no parent; a
\* record of such a node does not end the batch run, and the units the other
\* records of the batch implicate are processed.
C24_DetachedSkipped ==
  /\ [](\A k \in 1..Len(log) :
          log[k].n \in TextNodes => parent[log[k].n] # NULL)
  /\ [](\A i \in Dispatched :
          \A u \in BatchUnits(registry[i], records[i]) :
            Hits(registry[i], u) # {})
  /\ [][pc = "dispatch" => pc' # "idle"]_vars

\* a batch with a text edit of a node that has been removed since, and a
\* reset placeholder, has been processed
C24_Witness ==
  /\ pc = "resume" /\ op.kind = "deliver"
  /\ parent["t1"] = NULL
  /\ \E i \in Dispatched :
       /\ "t1" \in EditedTexts(records[i])
       /\ <<"inp", "placeholder">> \in EditedAttrs(records[i])
       /\ Hits(registry[i], <<"inp", "placeholder">>) # {}
       /\ Hits(registry[i], <<"t1", "">>) = {}

\* the text nodes with a <script>, <style> or <noscript> element among their
\* ancestors
Excluded ==
  {n \in TextNodes :
     \E e \in InclusiveAncestors(parent, n) \ {n} : TagName(e) \in IGNORED_TAGS}

\* C25: no operation of any observer applies the callback to a text node
\* that has a <script>, <style> or <noscript> element among its ancestors, at
\* any depth.
C25_ExcludedUntouched ==
  \A k \in 1..Len(log) : log[k].n \notin Excluded

\* C26: an observer constructed with the attributes option off never applies
\* its callback to an attribute value, and no attribute record in any queue
\* comes from a write of such an observer.
C26_AttributesOff ==
  /\ \A k \in 1..Len(log) :
       ~options[log[k].w].attributes => log[k].name = ""
  /\ \A o \in Watchers : \A k \in 1..Len(queue[o]) :
       queue[o][k].type = "attributes" =>
         \A w \in queue[o][k].by : options[w].attributes

\* an observer without the option has processed a batch with a page edit of
\* the placeholder and an insertion of the <div> that holds the <input>
C26_Witness ==
  /\ pc = "resume" /\ op.kind = "deliver"
  /\ \E i \in Dispatched :
       /\ ~options[registry[i]].attributes
       /\ <<"inp", "placeholder">> \in EditedAttrs(records[i])
       /\ "div" \in Inserted(records[i])
       /\ Hits(registry[i], <<"t1", "">>) # {}
       /\ attr[<<"inp", "placeholder">>] = ExtValue

\* an operation that sweeps the targets of its caller
Sweeping ==
  pc = "resume" /\ (op.kind = "construct" \/ (op.kind = "reconnect" /\ op.arg))

\* the shadow roots of the hosts below the targets of a watcher
ShadowsUnder(w) ==
  {ShadowOf(e) : e \in {h \in shadow : \E t \in SeqToSet(targets[w]) :
                                         Contains(parent, t, h)}}

\* C27: with the shadows option, a shadow tree below a target of a registered
\* watcher is swept once in an operation, and its root is a target and is
\* covered by the feed: after a sweep of the watcher that found it, after an
\* attachment to an element below a target, and whenever no operation is in
\* progress.
C27_ShadowCoverage ==
  /\ [](\A w \in Watchers : \A n \in TextNodes :
          parent[n] \in ShadowRoots => Count(w, n, "") <= 1)
  /\ [](Sweeping => ShadowsUnder(op.w) \subseteq SeqToSet(targets[op.w]))
  /\ [][shadow' # shadow =>
          \A w \in Registered :
            \A r \in {ShadowOf(e) : e \in shadow' \ shadow} \cap ShadowsUnder(w)' :
              r \in SeqToSet(targets'[w]) /\ r \in observing'[w]]_vars
  /\ [](pc = "idle" =>
          \A w \in Registered : SeqToSet(targets[w]) \subseteq observing[w])

\* C28: in the cycle of a constructor's scan or of a rescan, the scan starts
\* when the dispatch loop has passed every member of the registry; no feed is
\* registered anywhere from then until the resume; and when the operation is
\* over no notification is pending for any watcher.
C28_ScanPlacement ==
  /\ [](pc = "action" => idx = Len(registry) + 1)
  /\ []((pc \in {"action", "resume"} /\ op.kind \in {"construct", "reconnect"}) =>
          \A o \in Watchers : observing[o] = {})
  /\ [][(pc = "resume" /\ op.kind \in {"construct", "reconnect"}) =>
          \A o \in Watchers : queue'[o] = <<>>]_vars

\* C29: the title changes only in the step that constructs an observer on the
\* whole document, to the callback's result for it; the body is then the
\* observer's first target; the invocation on the title comes first in the
\* constructor, before the scan; constructing on an element leaves the title
\* alone, and so does every batch, rescan and reconnect.
C29_TitleOnce ==
  /\ [][\A w \in Watchers :
          (created[w] = "none" /\ created'[w] \in {"constructing", "live"}) =>
             /\ targets'[w] = <<"body">> => title' = ApplyKind(callback'[w], w, title)
             /\ targets'[w] # <<"body">> => title' = title]_vars
  /\ [][title' # title =>
          /\ pc = "idle"
          /\ \E w \in Watchers :
               /\ created[w] = "none" /\ created'[w] \in {"constructing", "live"}
               /\ targets'[w] = <<"body">>]_vars
  /\ [](\A k \in 1..Len(log) :
          log[k].n = "title" => (k = 1 /\ op.kind = "construct"))

\* an observer constructed on the whole document has been disconnected and
\* is at the end of the rescan of its reconnect; the title holds the result of
\* one application
C29_Witness ==
  /\ pc = "resume" /\ op.kind = "reconnect" /\ op.arg /\ op.w = 1
  /\ targets[1][1] = "body" /\ created[2] = "none"
  /\ Hits(1, <<"t1", "">>) # {}
  /\ title = ApplyKind("append", 1, InitValue)

\* C30: when the rescan of reconnect(true) is over, the observer has applied
\* its callback at most once to every text node and every attribute.
C30_RescanOnce ==
  (pc = "resume" /\ op.kind = "reconnect" /\ op.arg) =>
     \A u \in AllUnits : Count(op.w, u[1], u[2]) <= 1

\* the positions of the attribute records of a batch that name a unit
AttrRecords(batch, u) ==
  {k \in 1..Len(batch) :
     batch[k].type = "attributes" /\ batch[k].target = u[1] /\ batch[k].name = u[2]}

\* C31: a watcher that has processed a batch in which an element lies below
\* an inserted element and one attribute record names a watched attribute of
\* it has applied its callback to that attribute at most once, whether the
\* attribute record comes before or after the insertion record.
C31_DeferredAttributeCheck ==
  \A i \in Dispatched :
    \A u \in DOMAIN attr :
      ( /\ Cardinality(AttrRecords(records[i], u)) = 1
        /\ \E n \in Inserted(records[i]) \cap Elements :
             u[1] \in SeqToSet(DescendantsOf(parent, n)) )
      => Count(registry[i], u[1], u[2]) <= 1

\* C32: a watcher with the attributes option that has processed a batch
\* reporting the insertion of an element below one of its targets has applied
\* its callback exactly once to every present, non-empty watched attribute of
\* the inserted element itself that a selector of the attribute matches.
C32_InsertedRootAttribute ==
  \A i \in Dispatched :
    LET w == registry[i]
    IN \A u \in DOMAIN attr :
         ( /\ u[1] \in Inserted(records[i])
           /\ options[w].attributes /\ Matches(u[1], u[2]) /\ attr[u] # <<>>
           /\ \E t \in SeqToSet(targets[w]) : Contains(parent, t, u[1]) )
         => Count(w, u[1], u[2]) = 1

\* the text nodes a watcher's callback was applied to in the operation in
\* progress
Touched(w) == {n \in TextNodes : Hits(w, <<n, "">>) # {}}

\* C33: #processed holds the marks of one run only: after the batch run of a
\* watcher, and after a sweep, every marked text node is one the callback was
\* applied to in that run; and a mark of an earlier cycle blocks nothing: the
\* callback has been applied to every unit the batch implicates.
C33_DedupScope ==
  /\ \A i \in Dispatched :
       /\ processed[registry[i]] \cap TextNodes \subseteq Touched(registry[i])
       /\ \A u \in BatchUnits(registry[i], records[i]) : Hits(registry[i], u) # {}
  /\ Sweeping => processed[op.w] \cap TextNodes \subseteq Touched(op.w)

\* an observer whose construction scan marked the text node and the <input>
\* has processed a batch with a page edit of that text node
C33_Witness ==
  /\ pc = "resume" /\ op.kind = "deliver" /\ registry = <<1>>
  /\ "t1" \in EditedTexts(records[1])
  /\ attr[<<"inp", "placeholder">>] = Apply(1, InitValue)
  /\ text["t1"] = Apply(1, ExtValue)
  /\ processed[1] = {"t1"}

\* C34: when a cycle ends, by its resume or by an exception of a callback,
\* every member of the registry has its feed registered on all its targets,
\* and the batches taken at the freeze for the members the dispatch loop had
\* not reached are still pending for them.
C34_FreezeThenResume ==
  /\ [][(pc # "idle" /\ pc' = "idle") =>
          \A w \in SeqToSet(registry') :
            SeqToSet(targets'[w]) \subseteq observing'[w]]_vars
  /\ [][(pc = "dispatch" /\ pc' = "idle") =>
          \A i \in (idx + 1)..Len(registry) :
            LET q == queue'[registry[i]]
            IN /\ Len(q) >= Len(records[i])
               /\ SubSeq(q, 1, Len(records[i])) = records[i]]_vars

\* C35: the registry lists its members in the order of their construction
\* (watchers are constructed in the order of their numbers), whatever
\* disconnect and reconnect calls were made.
C35_RegistryOrder ==
  \A i, j \in 1..Len(registry) : i < j => registry[i] < registry[j]

\* C36: the target sequence of a watcher only grows; its first member is the
\* target the constructor resolved and every later member is a shadow root,
\* never an element; so no node lies below two targets of one watcher.
C36_TargetShape ==
  /\ [][\A w \in Watchers :
          created[w] = "live" =>
            /\ Len(targets'[w]) >= Len(targets[w])
            /\ SubSeq(targets'[w], 1, Len(targets[w])) = targets[w]]_vars
  /\ [](\A w \in Watchers : \A k \in 2..Len(targets[w]) :
          targets[w][k] \in ShadowRoots)
  /\ [](\A w \in Watchers : \A k, l \in 1..Len(targets[w]) :
          k # l => ~Contains(parent, targets[w][k], targets[w][l]))

\* C37: an observer constructed with the shadows option off never has a
\* shadow root among its targets, never has its feed registered on one, and
\* never applies its callback to a text node of a shadow tree.
C37_ShadowsOff ==
  \A w \in Watchers :
    (created[w] # "none" /\ ~options[w].shadows) =>
       /\ SeqToSet(targets[w]) \cap ShadowRoots = {}
       /\ observing[w] \cap ShadowRoots = {}
       /\ \A k \in 1..Len(log) :
            (log[k].w = w /\ log[k].n \in TextNodes) =>
               InclusiveAncestors(parent, log[k].n) \cap ShadowRoots = {}

\* a cycle of a delivered batch in which every member of the registry was
\* handed the same report of one page write: one record of a text or
\* attribute edit, or the removal and insertion records of one appendChild
OneEditForAll ==
  /\ pc = "resume" /\ op.kind = "deliver"
  /\ edits = 1
  /\ \A i \in 1..Len(registry) :
       /\ records[i] # <<>> /\ records[i] = records[1]
       /\ \A k \in 1..Len(records[i]) : records[i][k].by = {}

\* C38: when one page write was reported to every member of the registry, the
\* cycle applies the callback of each member exactly once to every unit the
\* write implicates, so a unit receives as many applications as there are
\* members, and no other watcher's callback is applied.
C38_OnePerWatcher ==
  OneEditForAll =>
    \A u \in BatchUnits(registry[1], records[1]) :
      /\ \A i \in 1..Len(registry) : Count(registry[i], u[1], u[2]) = 1
      /\ Cardinality({k \in 1..Len(log) : log[k].n = u[1] /\ log[k].name = u[2]})
           = Len(registry)

\* two observers have each processed the one record of a page edit of the
\* text node; the node holds the second's result for the first's result
C38_Witness ==
  /\ OneEditForAll /\ Len(registry) = 2
  /\ records[1][1].type = "characterData" /\ records[1][1].target = "t1"
  /\ Count(registry[1], "t1", "") = 1 /\ Count(registry[2], "t1", "") = 1
  /\ text["t1"] = Apply(registry[2], Apply(registry[1], ExtValue))

\* what an operation of watcher w leaves alone: the document, and the feeds,
\* targets, pending records and relative order of the other watchers
Frame(w) ==
  /\ text' = text /\ attr' = attr /\ parent' = parent /\ shadow' = shadow
  /\ title' = title
  /\ log' = <<>>
  /\ \A o \in Watchers \ {w} :
       /\ observing'[o] = observing[o]
       /\ targets'[o] = targets[o]
       /\ queue'[o] = queue[o]
  /\ SelectSeq(registry', LAMBDA o : o # w) = SelectSeq(registry, LAMBDA o : o # w)

\* C39: a disconnect(false), a reconnect(false) and a constructor with
\* processExisting = false on an element run no cycle, invoke no callback and
\* leave the document and the other watchers' feeds, targets, pending records
\* and relative order as they are.
C39_CheapOperations ==
  /\ [][\A w \in Watchers :
          (pc = "idle" /\ pc' = "idle" /\ connected'[w] # connected[w])
             => Frame(w)]_vars
  /\ [][\A w \in Watchers :
          (created[w] = "none" /\ created'[w] = "live" /\ targets'[w] # <<"body">>)
             => Frame(w)]_vars

\* an observer constructed on the <input> without a scan has been
\* disconnected and reconnected while a page edit was pending for the other
\* observer; the edit is still pending and the text is as the page wrote it
C39_Witness ==
  /\ pc = "idle" /\ registry = <<2, 1>> /\ calls = 2
  /\ targets[1] = <<"inp">> /\ observing[1] = {"inp"}
  /\ Len(queue[2]) = 1 /\ queue[2][1].target = "t1"
  /\ text["t1"] = ExtValue

====
